---------------------------- MODULE Spec2Model ----------------------------
(***************************************************************************)
(* nix-home-fs: a read-only FUSE filesystem with a root directory (inode   *)
(* 1) and two symlinks, `store` (inode 2) and `var` (inode 3), whose       *)
(* targets are HOME/nix/store and HOME/nix/var of the requesting user.     *)
(*                                                                         *)
(* Byte strings (Vec<u8>, OsStr, str) are sequences of byte values.        *)
(***************************************************************************)
EXTENDS Integers, Sequences, FiniteSets, TLC

(* ------------------------------ bounds --------------------------------- *)
\* inodes drawn for requests are 1..MaxIno
MaxIno == 4
\* readdir offsets drawn are -1..MaxOffset
MaxOffset == 5
\* number of entries the readdir reply buffer accepts before it is full
MaxCap == 4

\* req.uid() and req.gid() of the requests drawn: two processes of uid 1000
\* running under different groups, and one of uid 0
Requesters == {<<1000, 100>>, <<1000, 101>>, <<0, 0>>}
Uids == {r[1] : r \in Requesters}
Inos == 1..MaxIno
Offsets == (0 - 1)..MaxOffset
Caps == 0..MaxCap

(* --------------------------- byte literals ----------------------------- *)
\* "UNKNOWN_HOME"
UNKNOWN_HOME == <<85, 78, 75, 78, 79, 87, 78, 95, 72, 79, 77, 69>>
\* b"/nix/store"
NIX_STORE == <<47, 110, 105, 120, 47, 115, 116, 111, 114, 101>>
\* b"/nix/var"
NIX_VAR == <<47, 110, 105, 120, 47, 118, 97, 114>>
\* "store", "var", ".", ".."
STORE == <<115, 116, 111, 114, 101>>
VAR == <<118, 97, 114>>
DOT == <<46>>
DOTDOT == <<46, 46>>

\* home directories of the accounts drawn: "/root" for uid 0, "/h" otherwise
HomeOf(uid) == IF uid = 0 THEN <<47, 114, 111, 111, 116>> ELSE <<47, 104>>

\* child names drawn for lookup: "store", "var", "x", "stor\xC3\xA9"
\* (valid UTF-8, two-byte character), "store\xFF" and "\xC3" (not UTF-8)
Names == {STORE, VAR, <<120>>, <<115, 116, 111, 114, 195, 169>>,
          <<115, 116, 111, 114, 101, 255>>, <<195>>}

ENOENT == 2
TTL == 1
UNIX_EPOCH == 0

(* ------------------- host account directory answers -------------------- *)
\* Result<Option<User>> of User::from_uid
PwErr == [tag |-> "Err", dir |-> << >>]
PwNone == [tag |-> "None", dir |-> << >>]
PwUser(d) == [tag |-> "User", dir |-> d]
PwAnswers(uid) == {PwErr, PwNone, PwUser(HomeOf(uid))}

\* MountOption values passed to fuser::mount2
options == <<"RO", "FSName(nix-home-fs)", "AllowOther">>

VARIABLES
    pc,         \* position of main: start, daemonize, mount, serving, exit_ok, exit_err
    attempts,   \* the option lists handed to fuser::mount2 so far
    accounts,   \* what User::from_uid currently answers for each uid
    cur,        \* the request served last and the final replies it sent
    rd,         \* a client listing the root directory: cursor, names read, done
    memo        \* a getattr request on inode 2 served earlier, with its replies

vars == <<pc, attempts, accounts, cur, rd, memo>>

(* ------------------------------ replies -------------------------------- *)
ReplyEntry(ttl, attr, generation) ==
    [reply |-> "entry", ttl |-> ttl, attr |-> attr, generation |-> generation]
ReplyAttr(ttl, attr) == [reply |-> "attr", ttl |-> ttl, attr |-> attr]
ReplyData(data) == [reply |-> "data", data |-> data]
ReplyOk(entries) == [reply |-> "ok", entries |-> entries]
ReplyError(errno) == [reply |-> "error", errno |-> errno]

(* --------------------------- OsStr::to_str ----------------------------- *)
Cont(b) == b >= 128 /\ b <= 191

RECURSIVE Utf8Valid(_)
Utf8Valid(s) ==
    IF s = << >> THEN TRUE
    ELSE LET n == Len(s)
             b == s[1]
             rest(k) == SubSeq(s, k + 1, n)
         IN  IF b <= 127 THEN Utf8Valid(rest(1))
             ELSE IF b >= 194 /\ b <= 223
                  THEN n >= 2 /\ Cont(s[2]) /\ Utf8Valid(rest(2))
             ELSE IF b >= 224 /\ b <= 239
                  THEN /\ n >= 3
                       /\ Cont(s[2]) /\ Cont(s[3])
                       /\ (b = 224 => s[2] >= 160)
                       /\ (b = 237 => s[2] <= 159)
                       /\ Utf8Valid(rest(3))
             ELSE IF b >= 240 /\ b <= 244
                  THEN /\ n >= 4
                       /\ Cont(s[2]) /\ Cont(s[3]) /\ Cont(s[4])
                       /\ (b = 240 => s[2] >= 144)
                       /\ (b = 244 => s[2] <= 143)
                       /\ Utf8Valid(rest(4))
             ELSE FALSE

\* Option<&str>
to_str(name) ==
    IF Utf8Valid(name) THEN [some |-> TRUE, str |-> name]
    ELSE [some |-> FALSE, str |-> << >>]

(* -------------------------- identity resolver -------------------------- *)
User_from_uid(uid) == accounts[uid]

\* Option<Vec<u8>>: `.ok()??` turns both Err and Ok(None) into None
get_uid_home_dir(uid) ==
    LET r == User_from_uid(uid)
    IN  IF r.tag = "User" THEN [some |-> TRUE, val |-> r.dir]
        ELSE [some |-> FALSE, val |-> << >>]

unwrap_or(opt, default) == IF opt.some THEN opt.val ELSE default

(* ------------------------ attribute construction ----------------------- *)
\* faulty variant: the ownership fields swapped
get_dir_attr_swapped(uid, gid) ==
    [ino |-> 1, size |-> 0, blocks |-> 0,
     atime |-> UNIX_EPOCH, mtime |-> UNIX_EPOCH,
     ctime |-> UNIX_EPOCH, crtime |-> UNIX_EPOCH,
     kind |-> "Directory", perm |-> 493, nlink |-> 2,
     uid |-> gid, gid |-> uid, rdev |-> 0, flags |-> 0, blksize |-> 512]

get_dir_attr(uid, gid) ==
    [ino |-> 1, size |-> 0, blocks |-> 0,
     atime |-> UNIX_EPOCH, mtime |-> UNIX_EPOCH,
     ctime |-> UNIX_EPOCH, crtime |-> UNIX_EPOCH,
     kind |-> "Directory", perm |-> 493, nlink |-> 2,
     uid |-> uid, gid |-> gid, rdev |-> 0, flags |-> 0, blksize |-> 512]

\* faulty variant: the suffix of the other symlink
get_store_target_var_suffix(uid) ==
    LET home == unwrap_or(get_uid_home_dir(uid), UNKNOWN_HOME)
    IN  home \o NIX_VAR

get_store_target(uid) ==
    LET home == unwrap_or(get_uid_home_dir(uid), UNKNOWN_HOME)
    IN  home \o NIX_STORE

\* faulty variant: an access time that is bumped once the symlink has been stat-ed
get_store_attr_atime(uid, gid) ==
    [ino |-> 2, size |-> Len(get_store_target(uid)), blocks |-> 1,
     atime |-> IF cur.op = "getattr" /\ cur.ino = 2 THEN 1 ELSE UNIX_EPOCH,
     mtime |-> UNIX_EPOCH,
     ctime |-> UNIX_EPOCH, crtime |-> UNIX_EPOCH,
     kind |-> "Symlink", perm |-> 511, nlink |-> 1,
     uid |-> uid, gid |-> gid, rdev |-> 0, flags |-> 0, blksize |-> 512]

get_store_attr(uid, gid) ==
    [ino |-> 2, size |-> Len(get_store_target(uid)), blocks |-> 1,
     atime |-> UNIX_EPOCH, mtime |-> UNIX_EPOCH,
     ctime |-> UNIX_EPOCH, crtime |-> UNIX_EPOCH,
     kind |-> "Symlink", perm |-> 511, nlink |-> 1,
     uid |-> uid, gid |-> gid, rdev |-> 0, flags |-> 0, blksize |-> 512]

\* faulty variant: unwrap_or_default() in place of the UNKNOWN_HOME fallback
get_var_target_no_fallback(uid) ==
    LET home == unwrap_or(get_uid_home_dir(uid), << >>)
    IN  home \o NIX_VAR

get_var_target(uid) ==
    LET home == unwrap_or(get_uid_home_dir(uid), UNKNOWN_HOME)
    IN  home \o NIX_VAR

\* faulty variant: the size of the store target
get_var_attr_store_size(uid, gid) ==
    [ino |-> 3, size |-> Len(get_store_target(uid)), blocks |-> 1,
     atime |-> UNIX_EPOCH, mtime |-> UNIX_EPOCH,
     ctime |-> UNIX_EPOCH, crtime |-> UNIX_EPOCH,
     kind |-> "Symlink", perm |-> 511, nlink |-> 1,
     uid |-> uid, gid |-> gid, rdev |-> 0, flags |-> 0, blksize |-> 512]

get_var_attr(uid, gid) ==
    [ino |-> 3, size |-> Len(get_var_target(uid)), blocks |-> 1,
     atime |-> UNIX_EPOCH, mtime |-> UNIX_EPOCH,
     ctime |-> UNIX_EPOCH, crtime |-> UNIX_EPOCH,
     kind |-> "Symlink", perm |-> 511, nlink |-> 1,
     uid |-> uid, gid |-> gid, rdev |-> 0, flags |-> 0, blksize |-> 512]

(* ------------------------------ handlers ------------------------------- *)
\* Each handler yields the sequence of final replies it sends.
\* faulty variant: the parent inode is not matched
lookup_any_parent(uid, gid, parent, name) ==
    LET s == to_str(name)
    IN  IF s.some /\ s.str = STORE
        THEN <<ReplyEntry(TTL, get_store_attr(uid, gid), 0)>>
        ELSE IF s.some /\ s.str = VAR
        THEN <<ReplyEntry(TTL, get_var_attr(uid, gid), 0)>>
        ELSE <<ReplyError(ENOENT)>>

lookup(uid, gid, parent, name) ==
    LET s == to_str(name)
    IN  IF parent = 1 /\ s.some /\ s.str = STORE
        THEN <<ReplyEntry(TTL, get_store_attr(uid, gid), 0)>>
        ELSE IF parent = 1 /\ s.some /\ s.str = VAR
        THEN <<ReplyEntry(TTL, get_var_attr(uid, gid), 0)>>
        ELSE <<ReplyError(ENOENT)>>

getattr(uid, gid, ino) ==
    IF ino = 1 THEN <<ReplyAttr(TTL, get_dir_attr(uid, gid))>>
    ELSE IF ino = 2 THEN <<ReplyAttr(TTL, get_store_attr(uid, gid))>>
    ELSE IF ino = 3 THEN <<ReplyAttr(TTL, get_var_attr(uid, gid))>>
    ELSE <<ReplyError(ENOENT)>>

readlink(uid, ino) ==
    IF ino = 2 THEN <<ReplyData(get_store_target(uid))>>
    ELSE IF ino = 3 THEN <<ReplyData(get_var_target(uid))>>
    ELSE <<ReplyError(ENOENT)>>

entries ==
    <<[ino |-> 1, kind |-> "Directory", name |-> DOT],
      [ino |-> 1, kind |-> "Directory", name |-> DOTDOT],
      [ino |-> 2, kind |-> "Symlink", name |-> STORE],
      [ino |-> 3, kind |-> "Symlink", name |-> VAR]>>

\* ReplyDirectory::add: TRUE when the buffer is full, and then the entry
\* is not added; cap is the number of entries the buffer has room for.
reply_add(buf, cap, ino, offset, kind, name) ==
    IF Len(buf) >= cap THEN [full |-> TRUE, buf |-> buf]
    ELSE [full |-> FALSE,
          buf |-> Append(buf, [ino |-> ino, offset |-> offset,
                               kind |-> kind, name |-> name])]

\* faulty variant: the cursor taken for the index of the last entry read
skip_one_more(offset) ==
    IF offset < 0 \/ offset >= Len(entries) THEN Len(entries) ELSE offset + 1

\* `.skip(offset as usize)`: a negative i64 cast to usize is at least 2^63,
\* more than the list holds, so the iterator starts past the end.
skip(offset) ==
    IF offset < 0 \/ offset > Len(entries) THEN Len(entries) ELSE offset

\* the for loop over entries.into_iter().enumerate().skip(..); i is 0-based
RECURSIVE readdir_loop(_, _, _)
readdir_loop(i, buf, cap) ==
    IF i >= Len(entries) THEN buf
    ELSE LET entry == entries[i + 1]
             r == reply_add(buf, cap, entry.ino, i + 1, entry.kind, entry.name)
         IN  IF r.full THEN r.buf
             ELSE readdir_loop(i + 1, r.buf, cap)

\* faulty variant: entries tagged with their own index i, not i + 1
RECURSIVE readdir_loop_own_index(_, _, _)
readdir_loop_own_index(i, buf, cap) ==
    IF i >= Len(entries) THEN buf
    ELSE LET entry == entries[i + 1]
             r == reply_add(buf, cap, entry.ino, i, entry.kind, entry.name)
         IN  IF r.full THEN r.buf
             ELSE readdir_loop_own_index(i + 1, r.buf, cap)

readdir_own_index(ino, offset, cap) ==
    IF ino # 1 THEN <<ReplyError(ENOENT)>>
    ELSE <<ReplyOk(readdir_loop_own_index(skip(offset), << >>, cap))>>

\* faulty variant: no `return` after the error reply
readdir_no_return(ino, offset, cap) ==
    (IF ino # 1 THEN <<ReplyError(ENOENT)>> ELSE << >>)
        \o <<ReplyOk(readdir_loop(skip(offset), << >>, cap))>>

readdir(ino, offset, cap) ==
    IF ino # 1 THEN <<ReplyError(ENOENT)>>
    ELSE <<ReplyOk(readdir_loop(skip(offset), << >>, cap))>>

(* ------------------------------- state --------------------------------- *)
NoRequest ==
    [op |-> "none", ino |-> 0, name |-> << >>, offset |-> 0, cap |-> 0,
     uid |-> 0, gid |-> 0, acct |-> PwNone, sent |-> << >>]

Request(op, ino, name, offset, cap, uid, gid, sent) ==
    [op |-> op, ino |-> ino, name |-> name, offset |-> offset, cap |-> cap,
     uid |-> uid, gid |-> gid, acct |-> accounts[uid], sent |-> sent]

NoListing == [cursor |-> 0, acc |-> << >>, done |-> FALSE]

Init ==
    /\ pc = "start"
    /\ attempts = << >>
    /\ accounts \in {f \in [Uids -> UNION {PwAnswers(u) : u \in Uids}] :
                       \A u \in Uids : f[u] \in PwAnswers(u)}
    /\ cur = NoRequest
    /\ rd = NoListing
    /\ memo = NoRequest

(* -------------------------------- main --------------------------------- *)
\* Cli::parse and the branch on cli.foreground
Start ==
    /\ pc = "start"
    /\ \E foreground \in BOOLEAN :
           pc' = IF foreground THEN "mount" ELSE "daemonize"
    /\ UNCHANGED <<attempts, accounts, cur, rd, memo>>

\* Daemonize::new().start()?
Daemonize ==
    /\ pc = "daemonize"
    /\ \E ok \in BOOLEAN : pc' = IF ok THEN "mount" ELSE "exit_err"
    /\ UNCHANGED <<attempts, accounts, cur, rd, memo>>

\* mount_fs()?: fuser::mount2 either fails at once or serves until unmount
Mount ==
    /\ pc = "mount"
    /\ attempts' = Append(attempts, options)
    /\ \E ok \in BOOLEAN : pc' = IF ok THEN "serving" ELSE "exit_err"
    /\ UNCHANGED <<accounts, cur, rd, memo>>

\* mount2 returns Ok when the filesystem is unmounted; main returns Ok(())
Unmount ==
    /\ pc = "serving"
    /\ pc' = "exit_ok"
    /\ UNCHANGED <<attempts, accounts, cur, rd, memo>>

(* ------------------------- the host's accounts ------------------------- *)
AccountChange ==
    /\ \E uid \in Uids :
         \E a \in PwAnswers(uid) :
           /\ a # accounts[uid]
           /\ accounts' = [accounts EXCEPT ![uid] = a]
    /\ UNCHANGED <<pc, attempts, cur, rd, memo>>

(* ------------------------------ requests ------------------------------- *)
Lookup ==
    /\ pc = "serving"
    /\ \E req \in Requesters, parent \in Inos, name \in Names :
           cur' = Request("lookup", parent, name, 0, 0, req[1], req[2],
                          lookup(req[1], req[2], parent, name))
    /\ UNCHANGED <<pc, attempts, accounts, rd, memo>>

Getattr ==
    /\ pc = "serving"
    /\ \E req \in Requesters, ino \in Inos :
           cur' = Request("getattr", ino, << >>, 0, 0, req[1], req[2],
                          getattr(req[1], req[2], ino))
    /\ UNCHANGED <<pc, attempts, accounts, rd, memo>>

Readlink ==
    /\ pc = "serving"
    /\ \E req \in Requesters, ino \in Inos :
           cur' = Request("readlink", ino, << >>, 0, 0, req[1], req[2],
                          readlink(req[1], ino))
    /\ UNCHANGED <<pc, attempts, accounts, rd, memo>>

Readdir ==
    /\ pc = "serving"
    /\ \E req \in Requesters, ino \in Inos,
          offset \in Offsets, cap \in Caps :
           cur' = Request("readdir", ino, << >>, offset, cap, req[1], req[2],
                          readdir(ino, offset, cap))
    /\ UNCHANGED <<pc, attempts, accounts, rd, memo>>

(* --------------------- a client listing the root ---------------------- *)
\* One readdir call of a listing of inode 1: the offset is the cursor of the
\* last entry the buffer accepted in the call before (0 at first), and the
\* buffer has room for at least one entry.
ListStep ==
    /\ pc = "serving"
    /\ ~rd.done
    /\ \E req \in Requesters, cap \in 1..MaxCap :
         LET sent == readdir(1, rd.cursor, cap)
             got == IF Len(sent) = 1 /\ sent[1].reply = "ok"
                    THEN sent[1].entries ELSE << >>
         IN  /\ cur' = Request("readdir", 1, << >>, rd.cursor, cap,
                                req[1], req[2], sent)
             /\ rd' = [cursor |-> IF got = << >> THEN rd.cursor
                                  ELSE got[Len(got)].offset,
                       acc |-> rd.acc \o [k \in 1..Len(got) |-> got[k].name],
                       done |-> got = << >>]
    /\ UNCHANGED <<pc, attempts, accounts, memo>>

\* the caller of a getattr on inode 2 keeps the reply
Remember ==
    /\ pc = "serving"
    /\ cur.op = "getattr" /\ cur.ino = 2
    /\ memo' = cur
    /\ UNCHANGED <<pc, attempts, accounts, cur, rd>>

\* the client opens the directory again
ListStart ==
    /\ pc = "serving"
    /\ rd.done
    /\ rd' = NoListing
    /\ UNCHANGED <<pc, attempts, accounts, cur, memo>>

Next ==
    \/ Start
    \/ Daemonize
    \/ Mount
    \/ Unmount
    \/ AccountChange
    \/ Lookup
    \/ Getattr
    \/ Readlink
    \/ Readdir

Spec == Init /\ [][Next]_vars

\* The mounted filesystem serving its clients: lookup, getattr and readlink
\* requests, a client listing the root directory, and a caller that keeps
\* the reply of a getattr on inode 2 to compare it with a later one.  The
\* host's accounts are any one table, which does not change meanwhile.
InitServing ==
    /\ pc = "serving"
    /\ attempts = <<options>>
    /\ accounts \in {f \in [Uids -> UNION {PwAnswers(u) : u \in Uids}] :
                       \A u \in Uids : f[u] \in PwAnswers(u)}
    /\ cur = NoRequest
    /\ rd = NoListing
    /\ memo = NoRequest

NextServing ==
    \/ Lookup
    \/ Getattr
    \/ Readlink
    \/ ListStep
    \/ ListStart
    \/ Remember

SpecServing == InitServing /\ [][NextServing]_vars

(* ------------------------------ properties ----------------------------- *)
\* the home directory a requester's symlinks are rooted in, given the
\* host's answer for its uid at the time of the call
HomeSeen(acct) == IF acct.tag = "User" THEN acct.dir ELSE UNKNOWN_HOME

Answered(c) == Len(c.sent) = 1 /\ c.sent[1].reply # "error"
NotFound(c) == c.sent = <<ReplyError(2)>>

\* the requests that name the store symlink, and the var symlink
OnStore(c) ==
    \/ c.op = "lookup" /\ c.ino = 1 /\ c.name = STORE
    \/ c.op \in {"getattr", "readlink"} /\ c.ino = 2
OnVar(c) ==
    \/ c.op = "lookup" /\ c.ino = 1 /\ c.name = VAR
    \/ c.op \in {"getattr", "readlink"} /\ c.ino = 3

\* the size a reply reports for a symlink: the attribute record's size, or
\* the number of bytes of the target read
SizeIn(c) ==
    IF c.op = "readlink" THEN Len(c.sent[1].data) ELSE c.sent[1].attr.size

\* C1: for a requester whose uid resolves to a home directory H, readlink
\* on inode 2 replies H followed by "/nix/store" and readlink on inode 3
\* replies H followed by "/nix/var"; two readlink calls on the same inode by
\* the same uid, the account unchanged, reply the same bytes whatever the
\* gid of either caller.
C1_State ==
    (cur.op = "readlink" /\ cur.acct.tag = "User") =>
        /\ cur.ino = 2 =>
             cur.sent = <<ReplyData(cur.acct.dir \o
                            <<47, 110, 105, 120, 47, 115, 116, 111, 114, 101>>)>>
        /\ cur.ino = 3 =>
             cur.sent = <<ReplyData(cur.acct.dir \o
                            <<47, 110, 105, 120, 47, 118, 97, 114>>)>>
C1_Step ==
    (/\ cur.op = "readlink" /\ cur'.op = "readlink"
     /\ cur'.ino = cur.ino /\ cur'.uid = cur.uid /\ cur'.acct = cur.acct)
        => cur'.sent = cur.sent
C1_ReadlinkTarget == [](C1_State) /\ [][C1_Step]_vars

C1_Witness ==
    /\ cur.op = "readlink" /\ cur.ino = 2 /\ cur.uid = 1000 /\ cur.gid = 101
    /\ cur.acct.tag = "User"
    /\ cur.sent = <<ReplyData(<<47, 104, 47, 110, 105, 120, 47,
                               115, 116, 111, 114, 101>>)>>

\* C2: when the requester's uid has no resolvable account (no such user, or
\* the lookup failed), lookup of "store"/"var" under inode 1, getattr on
\* inodes 2 and 3 and readlink on inodes 2 and 3 still reply successfully,
\* and the targets read are "UNKNOWN_HOME/nix/store" and
\* "UNKNOWN_HOME/nix/var".
C2_UnknownHome ==
    (cur.acct.tag \in {"Err", "None"} /\ (OnStore(cur) \/ OnVar(cur))) =>
        /\ Answered(cur)
        /\ (cur.op = "readlink" /\ cur.ino = 2) =>
             cur.sent[1].data =
                 <<85, 78, 75, 78, 79, 87, 78, 95, 72, 79, 77, 69,
                   47, 110, 105, 120, 47, 115, 116, 111, 114, 101>>
        /\ (cur.op = "readlink" /\ cur.ino = 3) =>
             cur.sent[1].data =
                 <<85, 78, 75, 78, 79, 87, 78, 95, 72, 79, 77, 69,
                   47, 110, 105, 120, 47, 118, 97, 114>>

C2_Witness ==
    /\ cur.op = "readlink" /\ cur.ino = 3 /\ cur.acct.tag = "Err"
    /\ Len(cur.sent) = 1 /\ cur.sent[1].reply = "data"
    /\ SubSeq(cur.sent[1].data, 1, 12) = UNKNOWN_HOME

\* C3: every request outside the fixed namespace is answered with ENOENT
\* and nothing else: getattr on an inode other than 1, 2, 3; readlink on an
\* inode other than 2, 3; readdir on an inode other than 1; lookup of any
\* (parent, name) other than (1, "store") and (1, "var").
C3_NotFound ==
    (\/ cur.op = "getattr" /\ cur.ino \notin {1, 2, 3}
     \/ cur.op = "readlink" /\ cur.ino \notin {2, 3}
     \/ cur.op = "readdir" /\ cur.ino # 1
     \/ cur.op = "lookup" /\ ~(cur.ino = 1 /\ cur.name \in {STORE, VAR}))
        => NotFound(cur)

C3_Witness ==
    /\ cur.op = "lookup" /\ cur.ino = 2 /\ cur.name = STORE
    /\ cur.sent = <<ReplyError(ENOENT)>>

\* C4: readdir on inode 1 with offset k >= 0 and a buffer that never fills
\* replies the entries of the fixed list from position k on, in order, each
\* tagged with its 1-based position, and nothing for k >= 4.
Listing ==
    <<[ino |-> 1, offset |-> 1, kind |-> "Directory", name |-> <<46>>],
      [ino |-> 1, offset |-> 2, kind |-> "Directory", name |-> <<46, 46>>],
      [ino |-> 2, offset |-> 3, kind |-> "Symlink",
       name |-> <<115, 116, 111, 114, 101>>],
      [ino |-> 3, offset |-> 4, kind |-> "Symlink", name |-> <<118, 97, 114>>]>>

C4_Readdir ==
    (cur.op = "readdir" /\ cur.ino = 1 /\ cur.offset >= 0 /\ cur.cap >= 4) =>
        cur.sent = <<ReplyOk(IF cur.offset >= 4 THEN << >>
                             ELSE SubSeq(Listing, cur.offset + 1, 4))>>

C4_Witness ==
    /\ cur.op = "readdir" /\ cur.ino = 1 /\ cur.offset = 2 /\ cur.cap = 4
    /\ cur.sent = <<ReplyOk(<<Listing[3], Listing[4]>>)>>

\* C5: for the same uid, the account unchanged, any two of lookup(1,
\* "store"), getattr(2) and readlink(2) served one after the other report
\* the same size (the attribute size, or the length of the target read);
\* likewise lookup(1, "var"), getattr(3) and readlink(3).
C5_Step ==
    (/\ cur'.uid = cur.uid /\ cur'.acct = cur.acct
     /\ \/ OnStore(cur) /\ OnStore(cur')
        \/ OnVar(cur) /\ OnVar(cur'))
        => /\ Answered(cur) /\ Answered(cur')
           /\ SizeIn(cur') = SizeIn(cur)
C5_SameSize == [][C5_Step]_vars

C5_Witness ==
    /\ cur.op = "lookup" /\ cur.ino = 1 /\ cur.name = VAR /\ cur.uid = 0
    /\ cur.acct.tag = "User"
    /\ cur.sent[1].attr.size = 13

\* C6: getattr on inode 1 replies, for every requester, a record with kind
\* directory, perm 0755, nlink 2, size 0, blocks 0 and all timestamps at the
\* epoch, whose uid and gid are the requester's; two such records differ at
\* most in uid and gid.
C6_State ==
    (cur.op = "getattr" /\ cur.ino = 1) =>
        /\ Len(cur.sent) = 1 /\ cur.sent[1].reply = "attr"
        /\ cur.sent[1].attr =
             [ino |-> 1, size |-> 0, blocks |-> 0, atime |-> 0, mtime |-> 0,
              ctime |-> 0, crtime |-> 0, kind |-> "Directory", perm |-> 493,
              nlink |-> 2, uid |-> cur.uid, gid |-> cur.gid, rdev |-> 0,
              flags |-> 0, blksize |-> 512]
C6_Step ==
    (cur.op = "getattr" /\ cur.ino = 1 /\ cur'.op = "getattr" /\ cur'.ino = 1)
        => [cur'.sent[1].attr EXCEPT !.uid = 0, !.gid = 0]
             = [cur.sent[1].attr EXCEPT !.uid = 0, !.gid = 0]
C6_DirAttr == [](C6_State) /\ [][C6_Step]_vars

C6_Witness ==
    /\ cur.op = "getattr" /\ cur.ino = 1 /\ cur.uid = 1000 /\ cur.gid = 101
    /\ cur.sent[1].attr.uid = 1000 /\ cur.sent[1].attr.gid = 101
    /\ cur.sent[1].attr.perm = 493

C8_MountRetry ==
    (pc = "exit_err" /\ attempts # << >>) =>
        attempts = <<options, <<"RO", "FSName(nix-home-fs)">> >>

\* C9: a listing of inode 1 that starts at offset 0 and resumes each call
\* at the cursor of the last entry accepted, the buffer taking at least one
\* entry per call, gets no error, never more entries than the buffer takes,
\* reads ".", "..", "store", "var" in that order with none repeated or
\* skipped, and ends on an empty listing once all four are read.
C9_Resume ==
    /\ rd.acc = [k \in 1..rd.cursor |-> Listing[k].name]
    /\ rd.done => rd.cursor = 4
    /\ cur.op = "readdir" =>
         /\ Len(cur.sent) = 1 /\ cur.sent[1].reply = "ok"
         /\ Len(cur.sent[1].entries) <= cur.cap
         /\ rd.done => cur.sent[1].entries = << >>
         /\ (~rd.done /\ rd.cursor > 0) => cur.sent[1].entries # << >>

C9_Witness ==
    /\ rd.done
    /\ rd.acc = << <<46>>, <<46, 46>>, <<115, 116, 111, 114, 101>>,
                   <<118, 97, 114>> >>
    /\ cur.op = "readdir" /\ cur.offset = 4 /\ cur.sent = <<ReplyOk(<< >>)>>

\* C10: every request served, whatever its inode, name, requester or
\* offset, has sent exactly one final reply: the success reply of its
\* operation, or the error ENOENT.
C10_OneReply ==
    cur.op # "none" =>
        /\ Len(cur.sent) = 1
        /\ \/ cur.sent[1] = ReplyError(2)
           \/ cur.op = "lookup" /\ cur.sent[1].reply = "entry"
           \/ cur.op = "getattr" /\ cur.sent[1].reply = "attr"
           \/ cur.op = "readlink" /\ cur.sent[1].reply = "data"
           \/ cur.op = "readdir" /\ cur.sent[1].reply = "ok"

C10_Witness ==
    /\ cur.op = "readdir" /\ cur.ino = 1 /\ cur.offset < 0
    /\ cur.sent = <<ReplyOk(<< >>)>>

=============================================================================
